---- MODULE Spec2Model ----
(***************************************************************************)
(* A model of the analytics functions of data-analysis.js.                 *)
(*                                                                         *)
(* The functions are pure: each takes a list of sales records and returns  *)
(* a value.  The state is the record list (data), the wall clock (now) and *)
(* the value returned by the latest call (res).  Init draws the record     *)
(* list from a bounded set; every action is one call of one function.      *)
(*                                                                         *)
(* Numbers.  Quantities, counts and the input prices are integers (whole   *)
(* dollars).  A JavaScript division yields a number that is modelled as an *)
(* extended rational [n, d]: d > 0 is the fraction n/d in lowest terms,    *)
(* d = 0 is Infinity (n = 1), -Infinity (n = -1) or NaN (n = 0).  Binary   *)
(* floating-point rounding error is not modelled.                          *)
(***************************************************************************)
EXTENDS Integers, Sequences, FiniteSets, TLC

VARIABLES data, now, res

vars == <<data, now, res>>

(***************************************************************************)
(* Bounds of the model.                                                    *)
(***************************************************************************)
\* the longest record list given to the functions of Spec, SpecCLV, SpecCohort
MaxLen == 3

\* the longest record list given to createCustomerSegmentation
RfmLen == 4

\* the longest record list given to generateQuarterlyForecast
ForecastLen == 4

\* the longest record list given to calculatePriceElasticity
ElasticityLen == 5
RankLen == 5
AlertLen == 4

(***************************************************************************)
(* JavaScript numbers as extended rationals.                               *)
(***************************************************************************)
Abs(x) == IF x < 0 THEN -x ELSE x

Sign(x) == IF x < 0 THEN -1 ELSE IF x > 0 THEN 1 ELSE 0

RECURSIVE GCD(_, _)
GCD(a, b) == IF b = 0 THEN a ELSE GCD(b, a % b)

Rat(n, d) ==
    IF d = 0 THEN [n |-> Sign(n), d |-> 0]
    ELSE LET g == GCD(Abs(n), Abs(d))
         IN  [n |-> Sign(d) * (n \div g), d |-> Abs(d) \div g]

Q(i) == [n |-> i, d |-> 1]

NaN == [n |-> 0, d |-> 0]

IsFinite(a) == a.d # 0

IsNaN(a) == a.d = 0 /\ a.n = 0

RAdd(a, b) ==
    IF IsNaN(a) \/ IsNaN(b) THEN NaN
    ELSE IF a.d = 0 /\ b.d = 0 THEN (IF a.n = b.n THEN a ELSE NaN)
    ELSE IF a.d = 0 THEN a
    ELSE IF b.d = 0 THEN b
    ELSE Rat(a.n * b.d + b.n * a.d, a.d * b.d)

RNeg(a) == [n |-> -a.n, d |-> a.d]

RSub(a, b) == RAdd(a, RNeg(b))

RMul(a, b) ==
    IF IsNaN(a) \/ IsNaN(b) THEN NaN
    ELSE IF a.d = 0 \/ b.d = 0 THEN [n |-> Sign(a.n) * Sign(b.n), d |-> 0]
    ELSE Rat(a.n * b.n, a.d * b.d)

\* 1/b: 1/0 is Infinity, 1/Infinity is 0
RInv(b) ==
    IF IsNaN(b) THEN NaN
    ELSE IF b.d = 0 THEN Q(0)
    ELSE IF b.n = 0 THEN [n |-> 1, d |-> 0]
    ELSE Rat(b.d, b.n)

\* a / b as JavaScript evaluates it: x/0 is +-Infinity, 0/0 is NaN
RDiv(a, b) ==
    IF IsNaN(a) \/ IsNaN(b) THEN NaN
    ELSE IF a.d = 0 /\ b.d = 0 THEN NaN
    ELSE IF IsFinite(b) /\ b.n = 0
         THEN [n |-> Sign(a.n), d |-> 0]
    ELSE RMul(a, RInv(b))

\* comparisons: every comparison with NaN is false
RLt(a, b) == ~IsNaN(a) /\ ~IsNaN(b) /\ a # b /\
             (IF a.d = 0 THEN a.n < 0
              ELSE IF b.d = 0 THEN b.n > 0
              ELSE a.n * b.d < b.n * a.d)

RGt(a, b) == RLt(b, a)

RMax(a, b) == IF IsNaN(a) \/ IsNaN(b) THEN NaN ELSE IF RLt(a, b) THEN b ELSE a

RAbs(a) == [n |-> Abs(a.n), d |-> a.d]

\* Math.round: the nearest integer, halves rounded up
MathRound(a) == IF a.d = 0 THEN a ELSE Q((2 * a.n + a.d) \div (2 * a.d))

\* Math.ceil
MathCeil(a) == IF a.d = 0 THEN a ELSE Q(-((-a.n) \div a.d))

\* Math.round(x * k) / k
RoundTo(a, k) == RDiv(MathRound(RMul(a, Q(k))), Q(k))

(***************************************************************************)
(* Sequences.                                                              *)
(***************************************************************************)
RECURSIVE SumSeq(_)
SumSeq(s) == IF s = <<>> THEN 0 ELSE s[1] + SumSeq(Tail(s))

RECURSIVE RSumSeq(_)
RSumSeq(s) == IF s = <<>> THEN Q(0) ELSE RAdd(s[1], RSumSeq(Tail(s)))

SelectIdx(s, keep) ==
    LET idx == {i \in DOMAIN s : keep[i]}
        pos(i) == Cardinality({j \in idx : j <= i})
    IN  [p \in 1..Cardinality(idx) |-> s[CHOOSE i \in idx : pos(i) = p]]

\* the distinct elements of s in order of first appearance: the key order of
\* a JavaScript object whose keys are inserted in the order of s
Distinct(s) ==
    SelectIdx(s, [i \in DOMAIN s |-> \A j \in 1..(i - 1) : s[j] # s[i]])

\* Array.prototype.sort with a comparator: stable; before[i, j] tells that
\* the comparator puts s[i] before s[j], cmp(s[i], s[j]) < 0
StableSort(s, before) ==
    LET n == Len(s)
        pos(i) == 1 + Cardinality({j \in 1..n :
                        \/ before[j, i]
                        \/ (~before[i, j] /\ j < i)})
    IN  [p \in 1..n |-> s[CHOOSE i \in 1..n : pos(i) = p]]

\* Array.prototype.slice(0, limit)
Slice0(s, limit) == SubSeq(s, 1, IF limit < Len(s) THEN limit ELSE Len(s))

\* Array.prototype.slice(-count)
SliceLast(s, count) ==
    SubSeq(s, IF Len(s) > count THEN Len(s) - count + 1 ELSE 1, Len(s))

SeqsUpTo(S, n) == UNION {[1..k -> S] : k \in 0..n}

(***************************************************************************)
(* Dates.  A date string 'YYYY-MM-DD' of the year 2024 is [m, d].          *)
(***************************************************************************)
DaysBefore(m) ==
    CASE m = 1 -> 0   [] m = 2 -> 31  [] m = 3 -> 60  [] m = 4 -> 91
      [] m = 5 -> 121 [] m = 6 -> 152 [] m = 7 -> 182 [] m = 8 -> 213
      [] m = 9 -> 244 [] m = 10 -> 274 [] m = 11 -> 305 [] m = 12 -> 335

Date(m, d) == [m |-> m, d |-> d]

\* new Date(date) / (1000 * 60 * 60 * 24): the day number of the date
DayNumber(date) == DaysBefore(date.m) + date.d

\* date.substring(0, 7): the calendar month 'YYYY-MM'
MonthOf(date) == date.m

\* date.slice(-2): the day of the month 'DD'
DayOf(date) == date.d

\* the order of the date strings
DateLt(a, b) == a.m < b.m \/ (a.m = b.m /\ a.d < b.d)

(***************************************************************************)
(* Records.                                                                *)
(***************************************************************************)
\* the products table of generateSampleData
CategoryOf(p) ==
    CASE p \in {"Laptop", "Smartphone", "Headphones"} -> "Electronics"
      [] p \in {"Coffee Mug", "Desk Chair", "Plant Pot"} -> "Home"
      [] p \in {"Running Shoes", "Yoga Mat", "Water Bottle"} -> "Sports"
      [] OTHER -> "Books"

\* product.slice(0, 3)
Prefix(p) ==
    CASE p = "Laptop" -> "Lap" [] p = "Smartphone" -> "Sma"
      [] p = "Headphones" -> "Hea" [] p = "Coffee Mug" -> "Cof"
      [] p = "Desk Chair" -> "Des" [] p = "Plant Pot" -> "Pla"
      [] p = "Running Shoes" -> "Run" [] p = "Yoga Mat" -> "Yog"
      [] p = "Water Bottle" -> "Wat" [] p = "Novel Book" -> "Nov"
      [] p = "Cookbook" -> "Coo" [] OTHER -> "Mag"

\* a record field that is missing: item.product or item.date is undefined
Undefined == "undefined"

NoDate == [m |-> 0, d |-> 0]

\* item.date.substring(0, 7) raises a TypeError on a missing date
SubstringRaises(d) == \E i \in DOMAIN d : d[i].date = NoDate

\* `CUST_${item.product.slice(0, 3)}_${item.date.slice(-2)}` raises a
\* TypeError on a missing product or a missing date
SliceRaises(d) ==
    \E i \in DOMAIN d : d[i].product = Undefined \/ d[i].date = NoDate

\* one record as generateSampleData pushes it
SampleRecord(date, product, quantity, price) ==
    [date |-> date, product |-> product, category |-> CategoryOf(product),
     quantity |-> quantity, price |-> price, revenue |-> price * quantity]

\* `CUST_${product.slice(0, 3)}_${date.slice(-2)}`
CustomerId(item) == <<Prefix(item.product), DayOf(item.date)>>

(***************************************************************************)
(* class DataAnalyzer                                                      *)
(***************************************************************************)
calculateTotalRevenue(d) == SumSeq([i \in DOMAIN d |-> d[i].revenue])

\* the value of productSales[product] after the forEach over d; a missing or
\* zero entry is falsy and is assigned, any other entry is added to
RECURSIVE ProductSalesOf(_, _)
ProductSalesOf(d, product) ==
    IF d = <<>> THEN 0
    ELSE LET before == ProductSalesOf(SubSeq(d, 1, Len(d) - 1), product)
             item == d[Len(d)]
         IN  IF item.product # product THEN before
             ELSE IF before # 0 THEN before + item.quantity
             ELSE item.quantity

\* getTopSellingProducts sorting by ascending quantity (a.quantity - b.quantity)
getTopSellingProducts_Ascending(d, limit) ==
    LET products == Distinct([i \in DOMAIN d |-> d[i].product])
        entries == [k \in DOMAIN products |->
                      [product |-> products[k],
                       quantity |-> ProductSalesOf(d, products[k])]]
        before == [i, j \in DOMAIN entries |->
                      entries[i].quantity - entries[j].quantity < 0]
    IN  Slice0(StableSort(entries, before), limit)

getTopSellingProducts(d, limit) ==
    LET products == Distinct([i \in DOMAIN d |-> d[i].product])
        entries == [k \in DOMAIN products |->
                      [product |-> products[k],
                       quantity |-> ProductSalesOf(d, products[k])]]
        before == [i, j \in DOMAIN entries |->
                      entries[j].quantity - entries[i].quantity < 0]
    IN  Slice0(StableSort(entries, before), limit)

\* calculateAverageOrderValue without its guard on the empty list
calculateAverageOrderValue_Unguarded(d) ==
    RDiv(Q(calculateTotalRevenue(d)), Q(Len(d)))

calculateAverageOrderValue(d) ==
    IF Len(d) = 0 THEN Q(0)
    ELSE RDiv(Q(calculateTotalRevenue(d)), Q(Len(d)))

\* getSalesByCategory creating each bucket empty and forgetting to add the
\* record that created it
getSalesByCategory_DropsFirst(d) ==
    LET categories == Distinct([i \in DOMAIN d |-> d[i].category])
        of(c) == Tail(SelectIdx(d, [i \in DOMAIN d |-> d[i].category = c]))
    IN  [k \in DOMAIN categories |->
           LET items == of(categories[k])
           IN  [category |-> categories[k],
                revenue |-> SumSeq([i \in DOMAIN items |-> items[i].revenue]),
                quantity |-> SumSeq([i \in DOMAIN items |-> items[i].quantity]),
                orders |-> Len(items)]]

\* getSalesByCategory assigning each record to its bucket instead of
\* adding it: the bucket holds the category's last record
getSalesByCategory_Overwrites(d) ==
    LET categories == Distinct([i \in DOMAIN d |-> d[i].category])
        of(c) == SelectIdx(d, [i \in DOMAIN d |-> d[i].category = c])
    IN  [k \in DOMAIN categories |->
           LET items == of(categories[k])
           IN  [category |-> categories[k],
                revenue |-> items[Len(items)].revenue,
                quantity |-> items[Len(items)].quantity,
                orders |-> 1]]

\* categoryTotals as the list of its entries in key order
getSalesByCategory(d) ==
    LET categories == Distinct([i \in DOMAIN d |-> d[i].category])
        of(c) == SelectIdx(d, [i \in DOMAIN d |-> d[i].category = c])
    IN  [k \in DOMAIN categories |->
           LET items == of(categories[k])
           IN  [category |-> categories[k],
                revenue |-> SumSeq([i \in DOMAIN items |-> items[i].revenue]),
                quantity |-> SumSeq([i \in DOMAIN items |-> items[i].quantity]),
                orders |-> Len(items)]]

generateSummaryStatistics(d) ==
    [overview |->
        [totalRevenue |-> RoundTo(Q(calculateTotalRevenue(d)), 100),
         totalOrders |-> Len(d),
         averageOrderValue |-> RoundTo(calculateAverageOrderValue(d), 100),
         totalQuantitySold |-> SumSeq([i \in DOMAIN d |-> d[i].quantity])],
     topProducts |-> getTopSellingProducts(d, 3),
     categoryBreakdown |-> getSalesByCategory(d)]

\* the elements of a set of integers in ascending order: Object.keys(..).sort()
\* over month keys
SortedSeq(S) ==
    [p \in 1..Cardinality(S) |->
        CHOOSE x \in S : Cardinality({y \in S : y < x}) = p - 1]

\* monthlySales[month]
MonthlySalesRevenue(d, month) ==
    SumSeq([i \in DOMAIN d |->
              IF MonthOf(d[i].date) = month THEN d[i].revenue ELSE 0])

calculateMonthlyGrowthRate(d) ==
    LET months == SortedSeq({MonthOf(d[i].date) : i \in DOMAIN d})
    IN  [k \in 1..(Len(months) - 1) |->
           LET current == MonthlySalesRevenue(d, months[k + 1])
               previous == MonthlySalesRevenue(d, months[k])
               growthRate == RMul(RDiv(Q(current - previous), Q(previous)), Q(100))
           IN  [month |-> months[k + 1], growthRate |-> RoundTo(growthRate, 100)]]

(***************************************************************************)
(* calculateCustomerLifetimeValue                                          *)
(***************************************************************************)
\* customerMetrics[customerId] after the forEach: firstPurchase is the date
\* of the customer's first record in input order, lastPurchase is assigned
\* by every record and so is the date of the customer's last record in
\* input order
ClvMetrics(d, customerId) ==
    LET items == SelectIdx(d, [i \in DOMAIN d |-> CustomerId(d[i]) = customerId])
    IN  [totalRevenue |-> SumSeq([i \in DOMAIN items |-> items[i].revenue]),
         orderCount |-> Len(items),
         firstPurchase |-> items[1].date,
         lastPurchase |-> items[Len(items)].date]

ClvOf(customerId, metrics) ==
    LET daysBetween == RMax(Q(1), Q(DayNumber(metrics.lastPurchase)
                                      - DayNumber(metrics.firstPurchase)))
        avgOrderValue == RDiv(Q(metrics.totalRevenue), Q(metrics.orderCount))
        purchaseFrequency == RDiv(Q(metrics.orderCount),
                                  RMax(Q(1), RDiv(daysBetween, Q(30))))
        customerLifespan == RMax(Q(3), RDiv(daysBetween, Q(30)))
        clv == RMul(RMul(avgOrderValue, purchaseFrequency), customerLifespan)
    IN  [customerId |-> customerId,
         clv |-> RoundTo(clv, 100),
         totalRevenue |-> metrics.totalRevenue,
         orderCount |-> metrics.orderCount,
         avgOrderValue |-> RoundTo(avgOrderValue, 100),
         lifespanMonths |-> RoundTo(customerLifespan, 10)]

calculateCustomerLifetimeValue(d) ==
    LET customers == Distinct([i \in DOMAIN d |-> CustomerId(d[i])])
        clvResults == [k \in DOMAIN customers |->
                         ClvOf(customers[k], ClvMetrics(d, customers[k]))]
        before == [i, j \in DOMAIN clvResults |->
                      RLt(RSub(clvResults[j].clv, clvResults[i].clv), Q(0))]
    IN  StableSort(clvResults, before)

(***************************************************************************)
(* generateQuarterlyForecast                                               *)
(***************************************************************************)
\* monthlyTotals[month]
MonthlyTotal(d, month) ==
    SumSeq([i \in DOMAIN d |->
              IF MonthOf(d[i].date) = month THEN d[i].revenue ELSE 0])

\* revenues: the monthly totals in ascending month order
MonthlyRevenues(d) ==
    LET months == SortedSeq({MonthOf(d[i].date) : i \in DOMAIN d})
    IN  [k \in DOMAIN months |-> MonthlyTotal(d, months[k])]

InsufficientForecast ==
    [error |-> "Insufficient data for forecasting (need at least 3 months)"]

\* forecastRevenue without Math.max(0, forecast)
ForecastRevenue_Unclamped(slope, intercept, nextX) ==
    RoundTo(RAdd(RMul(slope, Q(nextX)), intercept), 100)

\* forecastRevenue of the period nextX
ForecastRevenue(slope, intercept, nextX) ==
    RoundTo(RMax(Q(0), RAdd(RMul(slope, Q(nextX)), intercept)), 100)

\* ForecastOf fitting the line over x = 0..n-1 and extrapolating at n+i
ForecastOf_ZeroBasedX(revenues) ==
    LET n == Len(revenues)
        sumX == SumSeq([i \in 1..n |-> i - 1])
        sumY == SumSeq(revenues)
        sumXY == SumSeq([i \in 1..n |-> (i - 1) * revenues[i]])
        sumX2 == SumSeq([i \in 1..n |-> (i - 1) * (i - 1)])
        slope == RDiv(Q(n * sumXY - sumX * sumY), Q(n * sumX2 - sumX * sumX))
        intercept == RDiv(RSub(Q(sumY), RMul(slope, Q(sumX))), Q(n))
        forecasts == [i \in 1..3 |->
            [month |-> i,
             forecastRevenue |->
                RoundTo(RMax(Q(0), RAdd(RMul(slope, Q(n + i)), intercept)), 100)]]
        quarterlyForecast ==
            RSumSeq([i \in 1..3 |-> forecasts[i].forecastRevenue])
        currentQuarterlyAvg == SumSeq(SliceLast(revenues, 3))
        growthRate == RMul(RDiv(RSub(quarterlyForecast, Q(currentQuarterlyAvg)),
                                Q(currentQuarterlyAvg)), Q(100))
    IN  [monthlyForecasts |-> forecasts,
         quarterlyTotal |-> RoundTo(quarterlyForecast, 100),
         expectedGrowthRate |-> RoundTo(growthRate, 100),
         confidence |-> IF n >= 6 THEN "High" ELSE "Medium",
         trendDirection |-> IF RGt(slope, Q(0)) THEN "Upward" ELSE "Downward"]

ForecastOf(revenues) ==
    LET n == Len(revenues)
        sumX == SumSeq([i \in 1..n |-> i])
        sumY == SumSeq(revenues)
        sumXY == SumSeq([i \in 1..n |-> i * revenues[i]])
        sumX2 == SumSeq([i \in 1..n |-> i * i])
        slope == RDiv(Q(n * sumXY - sumX * sumY), Q(n * sumX2 - sumX * sumX))
        intercept == RDiv(RSub(Q(sumY), RMul(slope, Q(sumX))), Q(n))
        forecasts == [i \in 1..3 |->
            [month |-> i,
             forecastRevenue |-> ForecastRevenue(slope, intercept, n + i)]]
        quarterlyForecast ==
            RSumSeq([i \in 1..3 |-> forecasts[i].forecastRevenue])
        currentQuarterlyAvg == SumSeq(SliceLast(revenues, 3))
        growthRate == RMul(RDiv(RSub(quarterlyForecast, Q(currentQuarterlyAvg)),
                                Q(currentQuarterlyAvg)), Q(100))
    IN  [monthlyForecasts |-> forecasts,
         quarterlyTotal |-> RoundTo(quarterlyForecast, 100),
         expectedGrowthRate |-> RoundTo(growthRate, 100),
         confidence |-> IF n >= 6 THEN "High" ELSE "Medium",
         trendDirection |-> IF RGt(slope, Q(0)) THEN "Upward" ELSE "Downward"]

\* generateQuarterlyForecast asking for two months only
generateQuarterlyForecast_NeedsTwo(d) ==
    LET revenues == MonthlyRevenues(d)
    IN  IF Len(revenues) < 2 THEN InsufficientForecast ELSE ForecastOf(revenues)

generateQuarterlyForecast(d) ==
    LET revenues == MonthlyRevenues(d)
    IN  IF Len(revenues) < 3 THEN InsufficientForecast ELSE ForecastOf(revenues)

(***************************************************************************)
(* createCohortAnalysis                                                    *)
(***************************************************************************)
\* customerFirstPurchase[customerId]: set by the customer's first record,
\* lowered by every later record of an earlier month
\* customerFirstPurchase[customerId] never lowered: the month of the
\* customer's first record in input order
CustomerFirstPurchase_FirstSeen(d, customerId) ==
    LET items == SelectIdx(d, [i \in DOMAIN d |-> CustomerId(d[i]) = customerId])
    IN  MonthOf(items[1].date)

RECURSIVE CustomerFirstPurchase(_, _)
CustomerFirstPurchase(d, customerId) ==
    LET item == d[Len(d)]
        rest == SubSeq(d, 1, Len(d) - 1)
        seen == \E i \in DOMAIN rest : CustomerId(rest[i]) = customerId
    IN  IF CustomerId(item) # customerId THEN CustomerFirstPurchase(rest, customerId)
        ELSE IF ~seen THEN MonthOf(item.date)
        ELSE LET before == CustomerFirstPurchase(rest, customerId)
             IN  IF MonthOf(item.date) < before THEN MonthOf(item.date) ELSE before

\* CohortOf tracking only the months after the cohort month
\* (purchaseMonth > cohortMonth)
CohortOf_After(d, cohortMonth, customers) ==
    LET cohortSize == Cardinality(customers)
        active(month) ==
            {CustomerId(d[i]) : i \in {j \in DOMAIN d :
                /\ CustomerId(d[j]) \in customers
                /\ MonthOf(d[j].date) > cohortMonth
                /\ MonthOf(d[j].date) = month}}
        months == SortedSeq({MonthOf(d[i].date) : i \in {j \in DOMAIN d :
                /\ CustomerId(d[j]) \in customers
                /\ MonthOf(d[j].date) > cohortMonth}})
    IN  [cohortMonth |-> cohortMonth,
         cohortSize |-> cohortSize,
         retentionByMonth |-> [k \in DOMAIN months |->
            [month |-> months[k],
             activeCustomers |-> Cardinality(active(months[k])),
             retentionRate |->
                RDiv(MathRound(RMul(RDiv(Q(Cardinality(active(months[k]))),
                                         Q(cohortSize)), Q(10000))), Q(100))]]]

\* one entry of cohortAnalysis
CohortOf(d, cohortMonth, customers) ==
    LET cohortSize == Cardinality(customers)
        \* retentionData[month]
        active(month) ==
            {CustomerId(d[i]) : i \in {j \in DOMAIN d :
                /\ CustomerId(d[j]) \in customers
                /\ MonthOf(d[j].date) >= cohortMonth
                /\ MonthOf(d[j].date) = month}}
        months == SortedSeq({MonthOf(d[i].date) : i \in {j \in DOMAIN d :
                /\ CustomerId(d[j]) \in customers
                /\ MonthOf(d[j].date) >= cohortMonth}})
    IN  [cohortMonth |-> cohortMonth,
         cohortSize |-> cohortSize,
         retentionByMonth |-> [k \in DOMAIN months |->
            [month |-> months[k],
             activeCustomers |-> Cardinality(active(months[k])),
             retentionRate |->
                RDiv(MathRound(RMul(RDiv(Q(Cardinality(active(months[k]))),
                                         Q(cohortSize)), Q(10000))), Q(100))]]]

createCohortAnalysis(d) ==
    LET ids == {CustomerId(d[i]) : i \in DOMAIN d}
        cohortMonths == SortedSeq({CustomerFirstPurchase(d, c) : c \in ids})
    IN  [k \in DOMAIN cohortMonths |->
           CohortOf(d, cohortMonths[k],
                    {c \in ids : CustomerFirstPurchase(d, c) = cohortMonths[k]})]

(***************************************************************************)
(* generatePerformanceAlerts                                               *)
(***************************************************************************)
\* new Date(sale.date) >= threeMonthsAgo, threeMonthsAgo = currentDate - 90
\* days; the record dates are midnights, the clock carries a time of day
IsRecent_Always(sale, clock) == sale.date # NoDate

IsRecent(sale, clock) ==
    IF sale.date = NoDate THEN FALSE
    ELSE IF clock.midnight THEN DayNumber(sale.date) >= clock.day - 90
    ELSE DayNumber(sale.date) > clock.day - 90

\* productPerformance[product].monthlySales[month] and .monthlyRevenue[month]
MonthlySales(recentSales, product, month) ==
    SumSeq([i \in DOMAIN recentSales |->
        IF recentSales[i].product = product /\ MonthOf(recentSales[i].date) = month
        THEN recentSales[i].quantity ELSE 0])

PriorityOrder(priority) ==
    CASE priority = "High" -> 3 [] priority = "Medium" -> 2 [] priority = "Low" -> 1

Alert(type, priority, product, category, issue) ==
    [type |-> type, priority |-> priority, product |-> product,
     category |-> category, issue |-> issue]

\* the decline alert with the thresholds included: >= 30 and >= 15
DeclineAlerts_AtLeast(salesDecline, product, category) ==
    IF ~RLt(salesDecline, Q(30))
    THEN <<Alert("CRITICAL", "High", product, category, "Severe Sales Decline")>>
    ELSE IF ~RLt(salesDecline, Q(15))
    THEN <<Alert("WARNING", "Medium", product, category, "Sales Decline")>>
    ELSE <<>>

\* the decline alert pushed for a product: salesDecline > 30, else > 15
DeclineAlerts(salesDecline, product, category) ==
    IF RGt(salesDecline, Q(30))
    THEN <<Alert("CRITICAL", "High", product, category, "Severe Sales Decline")>>
    ELSE IF RGt(salesDecline, Q(15))
    THEN <<Alert("WARNING", "Medium", product, category, "Sales Decline")>>
    ELSE <<>>

\* the alerts pushed for one product, in the order they are pushed
ProductAlerts(recentSales, product) ==
    LET items == SelectIdx(recentSales,
                    [i \in DOMAIN recentSales |-> recentSales[i].product = product])
        category == items[1].category
        months == SortedSeq({MonthOf(items[i].date) : i \in DOMAIN items})
        salesValues == [k \in DOMAIN months |->
                           MonthlySales(recentSales, product, months[k])]
        n == Len(months)
    IN  IF n < 2 THEN <<>>
        ELSE
          LET latestSales == salesValues[n]
              previousSales == salesValues[n - 1]
              salesDecline == RMul(RDiv(Q(previousSales - latestSales),
                                        Q(previousSales)), Q(100))
              avgMonthlySales == RDiv(Q(SumSeq(salesValues)), Q(n))
              decline == DeclineAlerts(salesDecline, product, category)
              zero ==
                  IF latestSales = 0 /\ previousSales > 0
                  THEN <<Alert("CRITICAL", "High", product, category,
                               "No Sales This Month")>>
                  ELSE <<>>
              low ==
                  IF RLt(avgMonthlySales, Q(2)) /\ RGt(avgMonthlySales, Q(0))
                  THEN <<Alert("INFO", "Low", product, category,
                               "Low Sales Volume")>>
                  ELSE <<>>
          IN  decline \o zero \o low

RECURSIVE Concat(_)
Concat(ss) == IF ss = <<>> THEN <<>> ELSE ss[1] \o Concat(Tail(ss))

\* generatePerformanceAlerts returning the alerts in the order pushed
generatePerformanceAlerts_Unsorted(salesData, clock) ==
    LET recentSales == SelectIdx(salesData,
            [i \in DOMAIN salesData |-> IsRecent(salesData[i], clock)])
        products == Distinct([i \in DOMAIN recentSales |-> recentSales[i].product])
    IN  Concat([k \in DOMAIN products |-> ProductAlerts(recentSales, products[k])])

generatePerformanceAlerts(salesData, clock) ==
    LET recentSales == SelectIdx(salesData,
            [i \in DOMAIN salesData |-> IsRecent(salesData[i], clock)])
        products == Distinct([i \in DOMAIN recentSales |-> recentSales[i].product])
        alerts == Concat([k \in DOMAIN products |->
                            ProductAlerts(recentSales, products[k])])
        before == [i, j \in DOMAIN alerts |->
                      PriorityOrder(alerts[j].priority)
                         - PriorityOrder(alerts[i].priority) < 0]
    IN  StableSort(alerts, before)

(***************************************************************************)
(* calculatePriceElasticity                                                *)
(***************************************************************************)
\* Math.floor(point.price / 50) * 50
PriceRange(price) == (price \div 50) * 50

\* priceQuantityPairs keeping every price range, also those of one point
PriceQuantityPairs_KeepsAll(points) ==
    LET in(r) == SelectIdx(points,
                    [i \in DOMAIN points |-> PriceRange(points[i].price) = r])
        ranges == SortedSeq({PriceRange(points[i].price) : i \in DOMAIN points})
    IN  [k \in DOMAIN ranges |->
           [price |-> ranges[k],
            avgQuantity |->
               RDiv(Q(SumSeq([i \in DOMAIN in(ranges[k]) |-> in(ranges[k])[i].quantity])),
                    Q(Len(in(ranges[k]))))]]

\* priceQuantityPairs: the price ranges holding at least 2 points, ascending
PriceQuantityPairs(points) ==
    LET in(r) == SelectIdx(points,
                    [i \in DOMAIN points |-> PriceRange(points[i].price) = r])
        ranges == SortedSeq({r \in {PriceRange(points[i].price) : i \in DOMAIN points} :
                               Len(in(r)) >= 2})
    IN  [k \in DOMAIN ranges |->
           [price |-> ranges[k],
            avgQuantity |->
               RDiv(Q(SumSeq([i \in DOMAIN in(ranges[k]) |-> in(ranges[k])[i].quantity])),
                    Q(Len(in(ranges[k]))))]]

\* the elasticity sample of the adjacent pairs p1, p2
PairElasticity(p1, p2) ==
    LET percentPriceChange ==
            RMul(RDiv(Q(p2.price - p1.price), Q(p1.price)), Q(100))
        percentQuantityChange ==
            RMul(RDiv(RSub(p2.avgQuantity, p1.avgQuantity), p1.avgQuantity), Q(100))
    IN  [percentPriceChange |-> percentPriceChange,
         percentQuantityChange |-> percentQuantityChange,
         counted |-> percentPriceChange # Q(0),
         elasticity |-> RDiv(percentQuantityChange, percentPriceChange)]

AvgElasticity(pairs) ==
    LET samples == [i \in 1..(Len(pairs) - 1) |-> PairElasticity(pairs[i], pairs[i + 1])]
        counted == SelectIdx(samples, [i \in DOMAIN samples |-> samples[i].counted])
        totalElasticity == RSumSeq([i \in DOMAIN counted |-> counted[i].elasticity])
        elasticityCount == Len(counted)
    IN  IF elasticityCount > 0 THEN RDiv(totalElasticity, Q(elasticityCount)) ELSE Q(0)

\* demandType without Math.abs
DemandType_Signed(avgElasticity) ==
    IF RGt(avgElasticity, Q(1)) THEN "Elastic"
    ELSE IF RGt(avgElasticity, Rat(1, 2)) THEN "Moderately Elastic"
    ELSE "Inelastic"

DemandType(avgElasticity) ==
    IF RGt(RAbs(avgElasticity), Q(1)) THEN "Elastic"
    ELSE IF RGt(RAbs(avgElasticity), Rat(1, 2)) THEN "Moderately Elastic"
    ELSE "Inelastic"

PricingRecommendation(avgElasticity) ==
    IF RLt(avgElasticity, Q(-1)) THEN "Consider price reductions to increase revenue"
    ELSE IF RGt(avgElasticity, Rat(-1, 2))
    THEN "Can increase prices with minimal quantity impact"
    ELSE "Price changes should be moderate"

CategoryElasticity(category, points) ==
    LET productCount == Cardinality({points[i].product : i \in DOMAIN points})
        pairs == PriceQuantityPairs(points)
    IN  IF Len(points) < 5
        THEN [category |-> category, elasticity |-> "Insufficient data",
              productCount |-> productCount, dataPoints |-> Len(points)]
        ELSE IF Len(pairs) < 2
        THEN [category |-> category, elasticity |-> "Insufficient price variation",
              productCount |-> productCount, dataPoints |-> Len(points)]
        ELSE [category |-> category,
              elasticity |-> RoundTo(AvgElasticity(pairs), 1000),
              demandType |-> DemandType(AvgElasticity(pairs)),
              pricingRecommendation |-> PricingRecommendation(AvgElasticity(pairs)),
              productCount |-> productCount,
              dataPoints |-> Len(points),
              priceRanges |-> Len(pairs)]

calculatePriceElasticity(salesData) ==
    LET categories == Distinct([i \in DOMAIN salesData |-> salesData[i].category])
        elasticityResults == [k \in DOMAIN categories |->
            CategoryElasticity(categories[k],
                SelectIdx(salesData,
                    [i \in DOMAIN salesData |-> salesData[i].category = categories[k]]))]
        before == [i, j \in DOMAIN elasticityResults |->
                      elasticityResults[j].dataPoints
                         - elasticityResults[i].dataPoints < 0]
    IN  StableSort(elasticityResults, before)

(***************************************************************************)
(* createCustomerSegmentation                                              *)
(***************************************************************************)
\* customerMetrics[customerId] after the forEach
RfmMetrics(salesData, customerId) ==
    LET items == SelectIdx(salesData,
            [i \in DOMAIN salesData |-> CustomerId(salesData[i]) = customerId])
        dates == {items[i].date : i \in DOMAIN items}
    IN  [purchases |-> Len(items),
         totalRevenue |-> SumSeq([i \in DOMAIN items |-> items[i].revenue]),
         categories |-> {items[i].category : i \in DOMAIN items},
         firstPurchase |-> CHOOSE x \in dates : \A y \in dates : ~DateLt(y, x),
         lastPurchase |-> CHOOSE x \in dates : \A y \in dates : ~DateLt(x, y)]

\* one entry of customerRFM
CustomerRFM(customerId, metrics, clock) ==
    [customerId |-> customerId,
     recency |-> clock.day - DayNumber(metrics.lastPurchase),
     frequency |-> metrics.purchases,
     monetary |-> RoundTo(Q(metrics.totalRevenue), 100),
     categoryDiversity |-> Cardinality(metrics.categories),
     customerLifespan |-> DayNumber(metrics.lastPurchase)
                            - DayNumber(metrics.firstPurchase),
     avgOrderValue |-> RoundTo(RDiv(Q(metrics.totalRevenue), Q(metrics.purchases)), 100)]

\* values.indexOf(value): the first index (from 0) holding value, else -1
IndexOf(values, value) ==
    IF \E i \in DOMAIN values : values[i] = value
    THEN (CHOOSE i \in DOMAIN values :
             values[i] = value /\ \A j \in 1..(i - 1) : values[j] # value) - 1
    ELSE -1

\* getQuintile computed from the zero-based index
getQuintile_ZeroBased(value, values, reverse) ==
    LET index == IndexOf(values, value)
        quintile == MathCeil(RMul(RDiv(Q(index), Q(Len(values))), Q(5))).n
    IN  IF reverse THEN 6 - quintile ELSE quintile

\* getQuintile without the reversal
getQuintile_NeverReversed(value, values, reverse) ==
    LET index == IndexOf(values, value)
    IN  MathCeil(RMul(RDiv(Q(index + 1), Q(Len(values))), Q(5))).n

getQuintile(value, values, reverse) ==
    LET index == IndexOf(values, value)
        quintile == MathCeil(RMul(RDiv(Q(index + 1), Q(Len(values))), Q(5))).n
    IN  IF reverse THEN 6 - quintile ELSE quintile

\* the if / else-if chain that determines the segment
SegmentOf(rScore, fScore, mScore) ==
    IF rScore >= 4 /\ fScore >= 4 /\ mScore >= 4 THEN "Champions"
    ELSE IF rScore >= 3 /\ fScore >= 3 /\ mScore >= 4 THEN "Loyal Customers"
    ELSE IF rScore >= 4 /\ fScore <= 2 /\ mScore >= 3 THEN "Big Spenders"
    ELSE IF rScore >= 4 /\ fScore >= 3 /\ mScore <= 2 THEN "Potential Loyalists"
    ELSE IF rScore <= 2 /\ fScore >= 3 /\ mScore >= 3 THEN "At Risk"
    ELSE IF rScore <= 2 /\ fScore <= 2 /\ mScore >= 4 THEN "Cannot Lose Them"
    ELSE IF rScore >= 3 /\ fScore <= 2 /\ mScore <= 2 THEN "New Customers"
    ELSE "Others"

\* customerRFM with one entry per record instead of one per customer key
CustomerRFMs_PerRecord(salesData, clock) ==
    [k \in DOMAIN salesData |->
        CustomerRFM(CustomerId(salesData[k]),
                    RfmMetrics(salesData, CustomerId(salesData[k])), clock)]

\* customerRFM: one entry per key of customerMetrics, in key order
CustomerRFMs(salesData, clock) ==
    LET customers == Distinct([i \in DOMAIN salesData |-> CustomerId(salesData[i])])
    IN  [k \in DOMAIN customers |->
           CustomerRFM(customers[k], RfmMetrics(salesData, customers[k]), clock)]

SegmentedCustomers(customerRFM) ==
    LET recencies == [k \in DOMAIN customerRFM |-> customerRFM[k].recency]
        frequencies == [k \in DOMAIN customerRFM |-> customerRFM[k].frequency]
        monetaries == [k \in DOMAIN customerRFM |-> customerRFM[k].monetary]
        recencyValues ==
            StableSort(recencies, [i, j \in DOMAIN customerRFM |->
                                     recencies[i] - recencies[j] < 0])
        frequencyValues ==
            StableSort(frequencies, [i, j \in DOMAIN customerRFM |->
                                       frequencies[j] - frequencies[i] < 0])
        monetaryValues ==
            StableSort(monetaries, [i, j \in DOMAIN customerRFM |->
                                      RLt(RSub(monetaries[j], monetaries[i]), Q(0))])
    IN  [k \in DOMAIN customerRFM |->
           LET customer == customerRFM[k]
               rScore == getQuintile(customer.recency, recencyValues, TRUE)
               fScore == getQuintile(customer.frequency, frequencyValues, FALSE)
               mScore == getQuintile(customer.monetary, monetaryValues, FALSE)
           IN  [customerId |-> customer.customerId,
                recency |-> customer.recency,
                frequency |-> customer.frequency,
                monetary |-> customer.monetary,
                rScore |-> rScore, fScore |-> fScore, mScore |-> mScore,
                segment |-> SegmentOf(rScore, fScore, mScore)]]

\* segmentStatistics as the list of its entries in key order
SegmentStats(segmentedCustomers) ==
    LET segments == Distinct([k \in DOMAIN segmentedCustomers |->
                                segmentedCustomers[k].segment])
    IN  [j \in DOMAIN segments |->
           LET members == SelectIdx(segmentedCustomers,
                   [k \in DOMAIN segmentedCustomers |->
                      segmentedCustomers[k].segment = segments[j]])
               count == Len(members)
           IN  [segment |-> segments[j],
                count |-> count,
                totalRevenue |->
                   RoundTo(RSumSeq([k \in DOMAIN members |-> members[k].monetary]), 100),
                avgRecency |->
                   MathRound(RDiv(Q(SumSeq([k \in DOMAIN members |-> members[k].recency])),
                                  Q(count))),
                avgFrequency |->
                   RoundTo(RDiv(Q(SumSeq([k \in DOMAIN members |-> members[k].frequency])),
                                Q(count)), 100),
                percentOfCustomers |->
                   RDiv(MathRound(RMul(RDiv(Q(count), Q(Len(segmentedCustomers))),
                                       Q(10000))), Q(100))]]

createCustomerSegmentation(salesData, clock) ==
    LET segmentedCustomers == SegmentedCustomers(CustomerRFMs(salesData, clock))
    IN  [customerSegments |-> segmentedCustomers,
         segmentStatistics |-> SegmentStats(segmentedCustomers),
         totalCustomers |-> Len(segmentedCustomers)]

(***************************************************************************)
(* runAnalysis: the validation filter and the summary of the valid records *)
(***************************************************************************)
\* the predicate of sampleData.filter(..); every modelled record has a date,
\* a product and a category
IsValid(item) == item.price > 0 /\ item.quantity > 0 /\ item.revenue > 0

runAnalysis(sampleData) ==
    LET validData == SelectIdx(sampleData,
            [i \in DOMAIN sampleData |-> IsValid(sampleData[i])])
    IN  [removed |-> Len(sampleData) - Len(validData),
         summary |-> generateSummaryStatistics(validData),
         rawData |-> validData,
         totalRecords |-> Len(validData)]

(***************************************************************************)
(* The inputs.                                                             *)
(***************************************************************************)
Clock(day, midnight) == [day |-> day, midnight |-> midnight]

\* records of three products of two categories bought on one day, the
\* quantity 0 standing for the records that validation rejects
BasicRecords ==
    {SampleRecord(Date(1, 15), p, q, 10) :
        p \in {"Laptop", "Smartphone", "Coffee Mug"}, q \in {0, 1, 2}}

(***************************************************************************)
(* The calls.  No function changes the records it is given, so a run is    *)
(* one call on the input: res holds the name of the function called and    *)
(* the value it returned.                                                  *)
(***************************************************************************)
Returned(op, val) == [op |-> op, val |-> val]

NoCall == Returned("none", <<>>)

\* a call that raised instead of returning
Raised(op, error) == [op |-> op, val |-> <<>>, raised |-> error]

Idle == res = NoCall

Call_calculateTotalRevenue ==
    /\ Idle
    /\ res' = Returned("calculateTotalRevenue", calculateTotalRevenue(data))
    /\ UNCHANGED <<data, now>>

Call_getTopSellingProducts ==
    /\ Idle
    /\ \E limit \in 1..3 :
          res' = [op |-> "getTopSellingProducts", limit |-> limit,
                  val |-> getTopSellingProducts(data, limit)]
    /\ UNCHANGED <<data, now>>

Call_calculateAverageOrderValue ==
    /\ Idle
    /\ res' = Returned("calculateAverageOrderValue", calculateAverageOrderValue(data))
    /\ UNCHANGED <<data, now>>

Call_getSalesByCategory ==
    /\ Idle
    /\ res' = Returned("getSalesByCategory", getSalesByCategory(data))
    /\ UNCHANGED <<data, now>>

Call_calculateMonthlyGrowthRate ==
    /\ Idle
    /\ res' = IF SubstringRaises(data) THEN Raised("calculateMonthlyGrowthRate", "TypeError")
               ELSE Returned("calculateMonthlyGrowthRate", calculateMonthlyGrowthRate(data))
    /\ UNCHANGED <<data, now>>

Call_generateSummaryStatistics ==
    /\ Idle
    /\ res' = Returned("generateSummaryStatistics", generateSummaryStatistics(data))
    /\ UNCHANGED <<data, now>>

Call_runAnalysis ==
    /\ Idle
    /\ res' = Returned("runAnalysis", runAnalysis(data))
    /\ UNCHANGED <<data, now>>

Call_calculateCustomerLifetimeValue ==
    /\ Idle
    /\ res' = IF SliceRaises(data) THEN Raised("calculateCustomerLifetimeValue", "TypeError")
               ELSE Returned("calculateCustomerLifetimeValue",
                           calculateCustomerLifetimeValue(data))
    /\ UNCHANGED <<data, now>>

Call_generateQuarterlyForecast ==
    /\ Idle
    /\ res' = IF SubstringRaises(data) THEN Raised("generateQuarterlyForecast", "TypeError")
               ELSE Returned("generateQuarterlyForecast", generateQuarterlyForecast(data))
    /\ UNCHANGED <<data, now>>

Call_createCohortAnalysis ==
    /\ Idle
    /\ res' = IF SliceRaises(data) THEN Raised("createCohortAnalysis", "TypeError")
               ELSE Returned("createCohortAnalysis", createCohortAnalysis(data))
    /\ UNCHANGED <<data, now>>

Call_generatePerformanceAlerts ==
    /\ Idle
    /\ res' = Returned("generatePerformanceAlerts",
                       generatePerformanceAlerts(data, now))
    /\ UNCHANGED <<data, now>>

Call_calculatePriceElasticity ==
    /\ Idle
    /\ res' = Returned("calculatePriceElasticity", calculatePriceElasticity(data))
    /\ UNCHANGED <<data, now>>

Call_createCustomerSegmentation ==
    /\ Idle
    /\ res' = IF SliceRaises(data) THEN Raised("createCustomerSegmentation", "TypeError")
               ELSE Returned("createCustomerSegmentation",
                           createCustomerSegmentation(data, now))
    /\ UNCHANGED <<data, now>>

(***************************************************************************)
(* Spec: every function, called on lists of up to MaxLen basic records.    *)
(***************************************************************************)
Init ==
    /\ data \in SeqsUpTo(BasicRecords, MaxLen)
    /\ now = Clock(20, FALSE)
    /\ res = NoCall

Next ==
    \/ Call_calculateTotalRevenue
    \/ Call_getTopSellingProducts
    \/ Call_calculateAverageOrderValue
    \/ Call_getSalesByCategory
    \/ Call_calculateMonthlyGrowthRate
    \/ Call_generateSummaryStatistics
    \/ Call_runAnalysis
    \/ Call_calculateCustomerLifetimeValue
    \/ Call_generateQuarterlyForecast
    \/ Call_createCohortAnalysis
    \/ Call_generatePerformanceAlerts
    \/ Call_calculatePriceElasticity
    \/ Call_createCustomerSegmentation

Spec == Init /\ [][Next]_vars

(***************************************************************************)
(* SpecCLV: calculateCustomerLifetimeValue on the records of two           *)
(* customers, one buying in January, February and May, one in January.     *)
(***************************************************************************)
ClvRecords ==
    {SampleRecord(date, "Laptop", 1, price) :
        date \in {Date(1, 15), Date(2, 15), Date(5, 15), Date(1, 16)},
        price \in {10, 20}}

InitCLV ==
    /\ data \in SeqsUpTo(ClvRecords, MaxLen)
    /\ now = Clock(150, FALSE)
    /\ res = NoCall

NextCLV == Call_calculateCustomerLifetimeValue

SpecCLV == InitCLV /\ [][NextCLV]_vars

(***************************************************************************)
(* SpecForecast: generateQuarterlyForecast on records of four months, in   *)
(* date order as generateSampleData returns them, of revenue 100 to 400.   *)
(***************************************************************************)
ForecastMonths == 1..4

NonDecreasing(k, S) ==
    {ms \in [1..k -> S] : \A i \in 1..(k - 1) : ms[i] <= ms[i + 1]}

ForecastInput(ms, qs) ==
    [i \in DOMAIN ms |-> SampleRecord(Date(ms[i], 15), "Laptop", qs[i], 100)]

InitForecast ==
    /\ \E k \in 0..ForecastLen :
          \E ms \in NonDecreasing(k, ForecastMonths), qs \in [1..k -> 1..4] :
             data = ForecastInput(ms, qs)
    /\ now = Clock(150, FALSE)
    /\ res = NoCall

NextForecast == Call_generateQuarterlyForecast

SpecForecast == InitForecast /\ [][NextForecast]_vars

(***************************************************************************)
(* SpecElasticity: calculatePriceElasticity on records of one category     *)
(* priced in the bands $0, $50 and $100.                                   *)
(***************************************************************************)
ElasticityRecords ==
    {SampleRecord(Date(1, 15), "Headphones", q, price) :
        q \in {1, 3}, price \in {10, 60, 110}}

InitElasticity ==
    /\ data \in SeqsUpTo(ElasticityRecords, ElasticityLen)
    /\ now = Clock(20, FALSE)
    /\ res = NoCall

NextElasticity == Call_calculatePriceElasticity

SpecElasticity == InitElasticity /\ [][NextElasticity]_vars

(***************************************************************************)
(* SpecCohort: createCohortAnalysis on the records of four customers       *)
(* buying in January, February and March, in any order.                    *)
(***************************************************************************)
CohortRecords ==
    {SampleRecord(Date(m, d), p, 1, 10) :
        m \in 1..3, d \in {15, 16}, p \in {"Laptop", "Smartphone"}}

InitCohort ==
    /\ data \in SeqsUpTo(CohortRecords, MaxLen)
    /\ now = Clock(100, FALSE)
    /\ res = NoCall

NextCohort == Call_createCohortAnalysis

SpecCohort == InitCohort /\ [][NextCohort]_vars

(***************************************************************************)
(* SpecRFM: createCustomerSegmentation on the records of four customers    *)
(* buying in January and February at the product's price.                  *)
(***************************************************************************)
BasePrice(p) == IF p = "Laptop" THEN 1000 ELSE 800

RfmRecords ==
    {SampleRecord(Date(m, d), p, 1, BasePrice(p)) :
        m \in 1..2, d \in {15, 16}, p \in {"Laptop", "Smartphone"}}

InitRFM ==
    /\ data \in SeqsUpTo(RfmRecords, RfmLen)
    /\ now = Clock(100, FALSE)
    /\ res = NoCall

NextRFM == Call_createCustomerSegmentation

SpecRFM == InitRFM /\ [][NextRFM]_vars

(***************************************************************************)
(* SpecRFMSorted: createCustomerSegmentation on records in date order, as  *)
(* generateSampleData returns them, of up to six customers.                *)
(***************************************************************************)
RankDates == <<Date(1, 15), Date(1, 16), Date(2, 15)>>

RankProducts == {"Laptop", "Smartphone", "Headphones"}

RankInput(ds, ps) ==
    [i \in DOMAIN ds |-> SampleRecord(RankDates[ds[i]], ps[i], 1, BasePrice(ps[i]))]

InitRFMSorted ==
    /\ \E k \in 0..RankLen :
          \E ds \in NonDecreasing(k, DOMAIN RankDates), ps \in [1..k -> RankProducts] :
             data = RankInput(ds, ps)
    /\ now = Clock(100, FALSE)
    /\ res = NoCall

NextRFMSorted == Call_createCustomerSegmentation

SpecRFMSorted == InitRFMSorted /\ [][NextRFMSorted]_vars

(***************************************************************************)
(* SpecAlerts, SpecAlertsZero, SpecAlertsMixed: generatePerformanceAlerts  *)
(* on records of two products in date order, all within the last 90 days:  *)
(* quantities 7 and 10 over three months (declines of exactly 30% and      *)
(* 15%), quantities 0 to 2 over two months (months without sales, low      *)
(* volumes), quantities 1, 3 and 4 over two months (all three priorities). *)
(***************************************************************************)
AlertDates == <<Date(1, 15), Date(2, 15), Date(3, 15), Date(4, 15)>>

AlertProducts == {"Laptop", "Coffee Mug"}

AlertInput(ds, ps, qs) ==
    [i \in DOMAIN ds |-> SampleRecord(AlertDates[ds[i]], ps[i], qs[i], 10)]

AlertInit(months, quantities) ==
    /\ \E k \in 0..AlertLen :
          \E ds \in NonDecreasing(k, months), ps \in [1..k -> AlertProducts],
             qs \in [1..k -> quantities] :
                data = AlertInput(ds, ps, qs)
    /\ now = Clock(95, FALSE)
    /\ res = NoCall

InitAlerts == AlertInit(1..3, {7, 10})

NextAlerts == Call_generatePerformanceAlerts

SpecAlerts == InitAlerts /\ [][NextAlerts]_vars

\* SpecAlertsWindow: one product over four months, called on May 15 at
\* midnight or later in the day: February 15 is exactly 90 days back
InitAlertsWindow ==
    /\ \E k \in 0..AlertLen :
          \E ds \in NonDecreasing(k, DOMAIN AlertDates), qs \in [1..k -> {7, 10}] :
             data = AlertInput(ds, [i \in 1..k |-> "Laptop"], qs)
    /\ now \in {Clock(136, TRUE), Clock(136, FALSE)}
    /\ res = NoCall

NextAlertsWindow == Call_generatePerformanceAlerts

SpecAlertsWindow == InitAlertsWindow /\ [][NextAlertsWindow]_vars

InitAlertsZero == AlertInit(2..3, {0, 1, 2})

NextAlertsZero == Call_generatePerformanceAlerts

SpecAlertsZero == InitAlertsZero /\ [][NextAlertsZero]_vars

InitAlertsMixed == AlertInit(2..3, {1, 3, 4})

NextAlertsMixed == Call_generatePerformanceAlerts

SpecAlertsMixed == InitAlertsMixed /\ [][NextAlertsMixed]_vars

(***************************************************************************)
(* SpecMalformed: the functions that read the date or the product of a     *)
(* record, on records whose date or product may be missing and whose       *)
(* quantity may be 0.                                                      *)
(***************************************************************************)
MalformedRecords ==
    {[date |-> date, product |-> product, category |-> "Electronics",
      quantity |-> q, price |-> 10, revenue |-> q * 10] :
        date \in {Date(1, 15), NoDate}, product \in {"Laptop", Undefined},
        q \in {0, 1}}

InitMalformed ==
    /\ data \in SeqsUpTo(MalformedRecords, MaxLen)
    /\ now = Clock(20, FALSE)
    /\ res = NoCall

NextMalformed ==
    \/ Call_calculateMonthlyGrowthRate
    \/ Call_calculateCustomerLifetimeValue
    \/ Call_generateQuarterlyForecast
    \/ Call_createCohortAnalysis
    \/ Call_generatePerformanceAlerts
    \/ Call_createCustomerSegmentation

SpecMalformed == InitMalformed /\ [][NextMalformed]_vars

(***************************************************************************)
(* The claims.                                                             *)
(***************************************************************************)
IsCall(op) == res.op = op

\* C1: the category buckets partition the records: their revenues sum to
\* calculateTotalRevenue(), their orders to the number of records and their
\* quantities to the total quantity, and no category has two buckets.
C1_CategoryPartition ==
    IsCall("getSalesByCategory") =>
        LET buckets == res.val
        IN  /\ SumSeq([k \in DOMAIN buckets |-> buckets[k].revenue])
                 = calculateTotalRevenue(data)
            /\ SumSeq([k \in DOMAIN buckets |-> buckets[k].orders]) = Len(data)
            /\ SumSeq([k \in DOMAIN buckets |-> buckets[k].quantity])
                 = SumSeq([i \in DOMAIN data |-> data[i].quantity])
            /\ \A j, k \in DOMAIN buckets :
                  buckets[j].category = buckets[k].category => j = k

\* C1 witness: two buckets, one of them fed by two records with revenue
C1_Witness ==
    /\ IsCall("getSalesByCategory")
    /\ Len(res.val) = 2
    /\ \E k \in DOMAIN res.val : res.val[k].orders = 2 /\ res.val[k].revenue >= 30

\* C7: on the empty record list every function returns its empty result:
\* 0, the empty list, the empty segmentation or the insufficient-data result.
C7_EmptyDataset ==
    data = <<>> =>
        /\ IsCall("calculateTotalRevenue") => res.val = 0
        /\ IsCall("calculateAverageOrderValue") => res.val = Q(0)
        /\ IsCall("getSalesByCategory") => res.val = <<>>
        /\ IsCall("getTopSellingProducts") => res.val = <<>>
        /\ IsCall("generatePerformanceAlerts") => res.val = <<>>
        /\ IsCall("createCustomerSegmentation") =>
              res.val.customerSegments = <<>> /\ res.val.totalCustomers = 0
        /\ IsCall("createCohortAnalysis") => res.val = <<>>
        /\ IsCall("calculateCustomerLifetimeValue") => res.val = <<>>
        /\ IsCall("calculatePriceElasticity") => res.val = <<>>
        /\ IsCall("generateQuarterlyForecast") => res.val = InsufficientForecast

\* C7 witness: the average order value of the empty list has been computed
C7_Witness ==
    data = <<>> /\ IsCall("calculateAverageOrderValue") /\ res.val = Q(0)

\* C8: a record whose quantity or price is not positive appears in no
\* bucket, whichever function is given the records: the category buckets
\* count the valid records only, and the product totals likewise.
C8_InvalidExcluded ==
    LET valid == SelectIdx(data, [i \in DOMAIN data |-> IsValid(data[i])])
    IN  /\ IsCall("getSalesByCategory") =>
              /\ SumSeq([k \in DOMAIN res.val |-> res.val[k].orders]) = Len(valid)
              /\ \A k \in DOMAIN res.val :
                    \E i \in DOMAIN valid : valid[i].category = res.val[k].category
        /\ IsCall("getTopSellingProducts") =>
              \A k \in DOMAIN res.val :
                 \E i \in DOMAIN valid : valid[i].product = res.val[k].product

\* C2: every rScore, fScore and mScore of createCustomerSegmentation is an
\* integer from 1 to 5.
C2_ScoresInRange ==
    IsCall("createCustomerSegmentation") =>
        \A k \in DOMAIN res.val.customerSegments :
            LET c == res.val.customerSegments[k]
            IN  c.rScore \in 1..5 /\ c.fScore \in 1..5 /\ c.mScore \in 1..5

\* C2 witness: a population of three customers, two of them tied on frequency
C2_Witness ==
    /\ IsCall("createCustomerSegmentation")
    /\ res.val.totalCustomers = 3
    /\ \E j, k \in DOMAIN res.val.customerSegments :
          /\ j # k
          /\ res.val.customerSegments[j].frequency
                = res.val.customerSegments[k].frequency

\* C3: a customer with exactly one record, of revenue V, has clv V.
C3_SingleOrderClv ==
    IsCall("calculateCustomerLifetimeValue") =>
        \A k \in DOMAIN res.val :
            res.val[k].orderCount = 1 => res.val[k].clv = Q(res.val[k].totalRevenue)

\* the monthly revenues of data are exactly linear over at least 3 months
IsLinear(y) ==
    Len(y) >= 3 /\ \A i \in 1..(Len(y) - 2) : y[i + 1] - y[i] = y[i + 2] - y[i + 1]

\* C4: for an exactly linear monthly series y_i = a*i + b over n >= 3 months
\* the forecast for period n+k is max(0, a*(n+k) + b), k = 1..3.
C4_LinearExtrapolation ==
    (IsCall("generateQuarterlyForecast") /\ IsLinear(MonthlyRevenues(data))) =>
        LET y == MonthlyRevenues(data)
            n == Len(y)
            a == y[2] - y[1]
            b == y[1] - a
            line(x) == a * x + b
        IN  /\ DOMAIN res.val.monthlyForecasts = 1..3
            /\ \A k \in 1..3 :
                  res.val.monthlyForecasts[k].forecastRevenue
                     = Q(IF line(n + k) > 0 THEN line(n + k) ELSE 0)

\* C4 witness: monthly revenues 100, 200, 300 give 400 for 'Month +1'
C4_Witness ==
    /\ IsCall("generateQuarterlyForecast")
    /\ MonthlyRevenues(data) = <<100, 200, 300>>
    /\ res.val.monthlyForecasts[1].forecastRevenue = Q(400)

\* the points of a category, as calculatePriceElasticity collects them
PointsOf(category) ==
    SelectIdx(data, [i \in DOMAIN data |-> data[i].category = category])

\* C5: a category whose qualifying price bands show average quantity falling
\* from each band to the next has a negative elasticity, one whose bands
\* show it rising from each band to the next has a positive elasticity.
C5_ElasticitySign ==
    IsCall("calculatePriceElasticity") =>
        \A k \in DOMAIN res.val :
            "demandType" \in DOMAIN res.val[k] =>
                LET pairs == PriceQuantityPairs(PointsOf(res.val[k].category))
                    falling == \A i \in 1..(Len(pairs) - 1) :
                        RLt(pairs[i + 1].avgQuantity, pairs[i].avgQuantity)
                    rising == \A i \in 1..(Len(pairs) - 1) :
                        RGt(pairs[i + 1].avgQuantity, pairs[i].avgQuantity)
                IN  /\ falling => RLt(res.val[k].elasticity, Q(0))
                    /\ rising => RGt(res.val[k].elasticity, Q(0))

\* C6: the first entry of every cohort's retentionByMonth is the cohort's
\* own month, with all the cohort's customers active and a rate of 100.
C6_CohortMonthRetention ==
    IsCall("createCohortAnalysis") =>
        \A k \in DOMAIN res.val :
            LET cohort == res.val[k]
            IN  /\ Len(cohort.retentionByMonth) >= 1
                /\ cohort.retentionByMonth[1].month = cohort.cohortMonth
                /\ cohort.retentionByMonth[1].activeCustomers = cohort.cohortSize
                /\ cohort.retentionByMonth[1].retentionRate = Q(100)

\* C6 witness: a cohort of two customers, tracked over a later month in
\* which only some of them bought
C6_Witness ==
    /\ IsCall("createCohortAnalysis")
    /\ \E k \in DOMAIN res.val :
          /\ res.val[k].cohortSize = 2
          /\ Len(res.val[k].retentionByMonth) = 2
          /\ res.val[k].retentionByMonth[2].retentionRate = Q(50)

\* the segment that the rules of the specification assign to (R, F, M)
ClaimedSegment(r, f, m) ==
    IF r >= 4 /\ f >= 4 /\ m >= 4 THEN "Champions"
    ELSE IF r >= 3 /\ f >= 3 /\ m >= 3 THEN "Loyal Customers"
    ELSE IF r >= 3 /\ f <= 2 /\ m >= 3 THEN "Potential Loyalists"
    ELSE IF r >= 4 /\ f <= 2 /\ m <= 2 THEN "New Customers"
    ELSE IF r <= 2 /\ f >= 3 /\ m >= 3 THEN "At Risk"
    ELSE IF r <= 2 /\ f <= 2 /\ m >= 4 THEN "Cannot Lose Them"
    ELSE IF r <= 2 /\ f <= 2 /\ m <= 2 THEN "Lost"
    ELSE "Others"

\* C9: every customer's segment is the one the specification's rules, taken
\* in order, assign to the customer's scores.
C9_SegmentRules ==
    IsCall("createCustomerSegmentation") =>
        \A k \in DOMAIN res.val.customerSegments :
            LET c == res.val.customerSegments[k]
            IN  c.segment = ClaimedSegment(c.rScore, c.fScore, c.mScore)

\* C10: every distinct customer key appears exactly once, with one segment;
\* the segment counts sum to totalCustomers, the number of distinct keys,
\* and the customers' frequencies sum to the number of records.
C10_OneSegmentPerCustomer ==
    IsCall("createCustomerSegmentation") =>
        LET cs == res.val.customerSegments
            stats == res.val.segmentStatistics
            ids == {CustomerId(data[i]) : i \in DOMAIN data}
        IN  /\ {cs[k].customerId : k \in DOMAIN cs} = ids
            /\ \A j, k \in DOMAIN cs : cs[j].customerId = cs[k].customerId => j = k
            /\ \A k \in DOMAIN cs :
                  Cardinality({j \in DOMAIN stats : stats[j].segment = cs[k].segment}) = 1
            /\ res.val.totalCustomers = Cardinality(ids)
            /\ SumSeq([j \in DOMAIN stats |-> stats[j].count]) = res.val.totalCustomers
            /\ SumSeq([k \in DOMAIN cs |-> cs[k].frequency]) = Len(data)

\* C10 witness: three customers from four records, in two segments
C10_Witness ==
    /\ IsCall("createCustomerSegmentation")
    /\ Len(data) = 4
    /\ res.val.totalCustomers = 3
    /\ Len(res.val.segmentStatistics) = 2

\* C11: of two customers of one run the one with the higher frequency has
\* an fScore at least as high and the one with the higher monetary total
\* an mScore at least as high; among five or more customers the one with
\* the largest monetary total has mScore 5.
C11_ScoresFollowRank ==
    IsCall("createCustomerSegmentation") =>
        LET cs == res.val.customerSegments
        IN  /\ \A a, b \in DOMAIN cs :
                  /\ cs[a].frequency > cs[b].frequency => cs[a].fScore >= cs[b].fScore
                  /\ RGt(cs[a].monetary, cs[b].monetary) => cs[a].mScore >= cs[b].mScore
            /\ \A a \in DOMAIN cs :
                  (/\ Len(cs) >= 5
                   /\ \A b \in DOMAIN cs : ~RGt(cs[b].monetary, cs[a].monetary))
                     => cs[a].mScore = 5

\* C12: of two customers of one run the one who bought more recently has
\* an rScore at least as high, and the customer with the most recent
\* purchase has rScore 5.
C12_RecencyInverted ==
    IsCall("createCustomerSegmentation") =>
        LET cs == res.val.customerSegments
        IN  /\ \A a, b \in DOMAIN cs :
                  cs[a].recency < cs[b].recency => cs[a].rScore >= cs[b].rScore
            /\ \A a \in DOMAIN cs :
                  (\A b \in DOMAIN cs : cs[a].recency <= cs[b].recency)
                     => cs[a].rScore = 5

\* C12 as amended: the more recent of two customers has an rScore at least
\* as high, and the customer with the most recent purchase has rScore
\* 6 - ceil(5/N) among N customers, which is 5 when N >= 5.
C12_RecencyInvertedFromFive ==
    IsCall("createCustomerSegmentation") =>
        LET cs == res.val.customerSegments
            N == Len(cs)
        IN  /\ \A a, b \in DOMAIN cs :
                  cs[a].recency < cs[b].recency => cs[a].rScore >= cs[b].rScore
            /\ \A a \in DOMAIN cs :
                  (\A b \in DOMAIN cs : cs[a].recency <= cs[b].recency)
                     => /\ cs[a].rScore = 6 - ((5 + N - 1) \div N)
                        /\ N >= 5 => cs[a].rScore = 5

\* C12 witness: five customers, the most recent one scored 5 and an older
\* one scored lower
C12_Witness ==
    /\ IsCall("createCustomerSegmentation")
    /\ res.val.totalCustomers = 5
    /\ \E a, b \in DOMAIN res.val.customerSegments :
          LET cs == res.val.customerSegments
          IN  /\ \A c \in DOMAIN cs : cs[a].recency <= cs[c].recency
              /\ cs[a].recency < cs[b].recency
              /\ cs[a].rScore = 5
              /\ cs[b].rScore < 5

\* the score of rank position p (from 1) among N customers
PositionScore(p, N, reverse) ==
    LET quintile == (5 * p + N - 1) \div N
    IN  IF reverse THEN 6 - quintile ELSE quintile

\* the lowest score of the rank positions first..last among N customers
LowestScore(first, last, N, reverse) ==
    CHOOSE x \in {PositionScore(p, N, reverse) : p \in first..last} :
        \A p \in first..last : x <= PositionScore(p, N, reverse)

\* C13: customers that tie on a measure share one score for it, the lowest
\* of the scores of the rank positions the tie spans (recency ranked from
\* the most recent, frequency and monetary as the code ranks them).
C13_TiesShareLowestScore ==
    IsCall("createCustomerSegmentation") =>
        LET cs == res.val.customerSegments
            N == Len(cs)
            Count(P(_)) == Cardinality({b \in DOMAIN cs : P(b)})
        IN  \A a \in DOMAIN cs :
              LET rBefore(b) == cs[b].recency < cs[a].recency
                  rUpTo(b) == cs[b].recency <= cs[a].recency
                  fBefore(b) == cs[b].frequency > cs[a].frequency
                  fUpTo(b) == cs[b].frequency >= cs[a].frequency
                  mBefore(b) == RGt(cs[b].monetary, cs[a].monetary)
                  mUpTo(b) == ~RLt(cs[b].monetary, cs[a].monetary)
              IN  /\ cs[a].rScore
                       = LowestScore(Count(rBefore) + 1, Count(rUpTo), N, TRUE)
                  /\ cs[a].fScore
                       = LowestScore(Count(fBefore) + 1, Count(fUpTo), N, FALSE)
                  /\ cs[a].mScore
                       = LowestScore(Count(mBefore) + 1, Count(mUpTo), N, FALSE)

\* C14: generateQuarterlyForecast returns a result with the error field
\* only when the records span fewer than 3 distinct months, and a result
\* with exactly three monthly forecasts when they span 3 or more.
C14_ThreeMonthsNeeded ==
    IsCall("generateQuarterlyForecast") =>
        LET months == {MonthOf(data[i].date) : i \in DOMAIN data}
        IN  IF Cardinality(months) < 3
            THEN DOMAIN res.val = {"error"}
            ELSE /\ "error" \notin DOMAIN res.val
                 /\ "quarterlyTotal" \in DOMAIN res.val
                 /\ DOMAIN res.val.monthlyForecasts = 1..3

\* C14 witness: records of exactly two months, refused
C14_Witness ==
    /\ IsCall("generateQuarterlyForecast")
    /\ Len(data) = 4
    /\ Cardinality({MonthOf(data[i].date) : i \in DOMAIN data}) = 2
    /\ res.val = InsufficientForecast

\* C15: every forecastRevenue is at least 0, also where the fitted line is
\* negative, and quarterlyTotal is the sum of the three monthly forecasts.
C15_ForecastNotNegative ==
    (IsCall("generateQuarterlyForecast") /\ "monthlyForecasts" \in DOMAIN res.val) =>
        LET f == res.val.monthlyForecasts
        IN  /\ \A k \in DOMAIN f :
                  IsFinite(f[k].forecastRevenue) /\ ~RLt(f[k].forecastRevenue, Q(0))
            /\ res.val.quarterlyTotal
                  = RAdd(RAdd(f[1].forecastRevenue, f[2].forecastRevenue),
                         f[3].forecastRevenue)

\* C15 witness: monthly revenues 400, 200, 100 fall so steeply that the
\* fitted line is negative from the next month on: all forecasts are 0
C15_Witness ==
    /\ IsCall("generateQuarterlyForecast")
    /\ MonthlyRevenues(data) = <<400, 200, 100>>
    /\ \A k \in 1..3 : res.val.monthlyForecasts[k].forecastRevenue = Q(0)
    /\ res.val.quarterlyTotal = Q(0)

\* the records of a category whose price band of width 50 holds at least
\* 2 of the category's records
InQualifyingBands(category) ==
    LET points == PointsOf(category)
        size(r) == Cardinality({i \in DOMAIN points : PriceRange(points[i].price) = r})
    IN  SelectIdx(points, [i \in DOMAIN points |-> size(PriceRange(points[i].price)) >= 2])

\* C16: a category has a numeric elasticity only with at least 5 records
\* and at least 2 price bands of at least 2 records each; with fewer than
\* 5 records it has 'Insufficient data', otherwise with fewer than 2 such
\* bands 'Insufficient price variation'; the numeric value is the one of
\* the records in such bands alone.
C16_ElasticityNeedsData ==
    IsCall("calculatePriceElasticity") =>
        \A k \in DOMAIN res.val :
            LET points == PointsOf(res.val[k].category)
                kept == InQualifyingBands(res.val[k].category)
                bands == {PriceRange(kept[i].price) : i \in DOMAIN kept}
            IN  IF Len(points) < 5
                THEN /\ "demandType" \notin DOMAIN res.val[k]
                     /\ res.val[k].elasticity = "Insufficient data"
                ELSE IF Cardinality(bands) < 2
                THEN /\ "demandType" \notin DOMAIN res.val[k]
                     /\ res.val[k].elasticity = "Insufficient price variation"
                ELSE /\ "demandType" \in DOMAIN res.val[k]
                     /\ res.val[k].priceRanges = Cardinality(bands)
                     /\ res.val[k].elasticity
                           = RoundTo(AvgElasticity(PriceQuantityPairs(kept)), 1000)

\* C16 witness: five records, two bands of two and one band of a single
\* record whose quantity differs; the value is the one of the two bands
C16_Witness ==
    /\ IsCall("calculatePriceElasticity")
    /\ Len(data) = 5
    /\ Len(InQualifyingBands("Electronics")) = 4
    /\ "priceRanges" \in DOMAIN res.val[1]
    /\ res.val[1].priceRanges = 2
    /\ res.val[1].elasticity = Q(2)

\* the mean of the elasticity samples of the adjacent qualifying bands of
\* a category: percentage quantity change over percentage price change
MeanSample(category) ==
    LET pairs == PriceQuantityPairs(PointsOf(category))
        pct(from, to) == RMul(RDiv(RSub(to, from), from), Q(100))
        sample(i) == RDiv(pct(pairs[i].avgQuantity, pairs[i + 1].avgQuantity),
                          pct(Q(pairs[i].price), Q(pairs[i + 1].price)))
    IN  RDiv(RSumSeq([i \in 1..(Len(pairs) - 1) |-> sample(i)]), Q(Len(pairs) - 1))

\* C17: with e the mean of the samples of a category that has a numeric
\* elasticity, demandType is Elastic iff |e| > 1, Moderately Elastic iff
\* 0.5 < |e| <= 1 and Inelastic iff |e| <= 0.5.
C17_DemandClassification ==
    IsCall("calculatePriceElasticity") =>
        \A k \in DOMAIN res.val :
            "demandType" \in DOMAIN res.val[k] =>
                LET e == RAbs(MeanSample(res.val[k].category))
                    type == res.val[k].demandType
                IN  /\ type = "Elastic" <=> RGt(e, Q(1))
                    /\ type = "Moderately Elastic" <=> (RGt(e, Rat(1, 2)) /\ ~RGt(e, Q(1)))
                    /\ type = "Inelastic" <=> ~RGt(e, Rat(1, 2))

\* C17 witness: average quantity 3 in the $50 band and 1 in the $100 band:
\* the mean is -2/3, Moderately Elastic
C17_Witness ==
    /\ IsCall("calculatePriceElasticity")
    /\ Len(res.val) = 1
    /\ "demandType" \in DOMAIN res.val[1]
    /\ MeanSample(res.val[1].category) = Rat(-2, 3)
    /\ res.val[1].demandType = "Moderately Elastic"

\* the records of data that generatePerformanceAlerts takes as recent
RecentRecords ==
    SelectIdx(data, [i \in DOMAIN data |-> IsRecent(data[i], now)])

\* the months in which a product has recent records, ascending
BucketsOf(product) ==
    SortedSeq({MonthOf(RecentRecords[i].date) :
                 i \in {j \in DOMAIN RecentRecords : RecentRecords[j].product = product}})

\* the quantity of a product sold in a month
SoldIn(product, month) ==
    SumSeq([i \in DOMAIN RecentRecords |->
        IF RecentRecords[i].product = product /\ MonthOf(RecentRecords[i].date) = month
        THEN RecentRecords[i].quantity ELSE 0])

\* the number of alerts of a type and an issue returned for a product
AlertCount(product, type, issue) ==
    Cardinality({k \in DOMAIN res.val :
        /\ res.val[k].product = product
        /\ res.val[k].type = type
        /\ res.val[k].issue = issue})

\* C18: a product with at least two monthly buckets and a positive
\* previous-month quantity has a CRITICAL decline alert iff the quantity
\* fell by more than 30% from the previous to the latest month, a WARNING
\* decline alert iff it fell by more than 15% and at most 30%, and never
\* both; it has no other decline alert.
C18_DeclineThresholds ==
    IsCall("generatePerformanceAlerts") =>
        \A product \in {data[i].product : i \in DOMAIN data} :
            LET months == BucketsOf(product)
                n == Len(months)
                previous == SoldIn(product, months[n - 1])
                latest == SoldIn(product, months[n])
                critical == AlertCount(product, "CRITICAL", "Severe Sales Decline")
                warning == AlertCount(product, "WARNING", "Sales Decline")
            IN  (n >= 2 /\ previous > 0) =>
                  /\ critical = IF 100 * (previous - latest) > 30 * previous
                                THEN 1 ELSE 0
                  /\ warning = IF /\ 100 * (previous - latest) > 15 * previous
                                  /\ 100 * (previous - latest) <= 30 * previous
                               THEN 1 ELSE 0
                  /\ critical + warning <= 1
                  /\ critical + warning
                        = Cardinality({k \in DOMAIN res.val :
                             /\ res.val[k].product = product
                             /\ res.val[k].issue \in {"Severe Sales Decline",
                                                       "Sales Decline"}})

\* C18 witness: a product with three monthly buckets falls by exactly 30%
\* (10 to 7) over the last two and gets the WARNING alert, not the CRITICAL
C18_Witness ==
    /\ IsCall("generatePerformanceAlerts")
    /\ \E product \in AlertProducts :
          /\ Len(BucketsOf(product)) = 3
          /\ SoldIn(product, 2) = 10
          /\ SoldIn(product, 3) = 7
          /\ AlertCount(product, "WARNING", "Sales Decline") = 1
          /\ AlertCount(product, "CRITICAL", "Severe Sales Decline") = 0

\* C19: a product with a positive quantity in the month before the latest
\* month of the recent records and none in that latest month has a
\* 'No Sales This Month' alert; a product whose previous bucket is 0 has
\* no decline alert.
C19_NoSalesThisMonth ==
    (IsCall("generatePerformanceAlerts") /\ RecentRecords # <<>>) =>
        LET months == {MonthOf(RecentRecords[i].date) : i \in DOMAIN RecentRecords}
            latestMonth == CHOOSE m \in months : \A x \in months : x <= m
        IN  \A product \in {data[i].product : i \in DOMAIN data} :
              /\ (/\ SoldIn(product, latestMonth - 1) > 0
                   /\ SoldIn(product, latestMonth) = 0)
                    => AlertCount(product, "CRITICAL", "No Sales This Month") = 1
              /\ (/\ Len(BucketsOf(product)) >= 2
                   /\ SoldIn(product, BucketsOf(product)[Len(BucketsOf(product)) - 1]) = 0)
                    => /\ AlertCount(product, "CRITICAL", "Severe Sales Decline") = 0
                       /\ AlertCount(product, "WARNING", "Sales Decline") = 0

\* C20: the returned list is in descending priority: no alert precedes an
\* alert of higher priority.
C20_SortedBySeverity ==
    IsCall("generatePerformanceAlerts") =>
        \A j, k \in DOMAIN res.val :
            j < k => PriorityOrder(res.val[j].priority)
                        >= PriorityOrder(res.val[k].priority)

\* C20 witness: the product met first gets a Low alert only, the product
\* met second a Medium one, which is returned first
C20_Witness ==
    /\ IsCall("generatePerformanceAlerts")
    /\ Len(res.val) = 2
    /\ res.val[1].priority = "Medium"
    /\ res.val[2].priority = "Low"
    /\ res.val[2].product = data[1].product
    /\ res.val[1].product # data[1].product

\* the month of the earliest record of a customer
EarliestMonth(customerId) ==
    LET months == {MonthOf(data[i].date) :
                     i \in {j \in DOMAIN data : CustomerId(data[j]) = customerId}}
    IN  CHOOSE m \in months : \A x \in months : m <= x

\* C21: whatever the order of the records, there is one cohort for every
\* month that is the earliest month of some customer, its size is the
\* number of those customers, the sizes sum to the number of distinct
\* customers and the cohorts are in ascending month order.
C21_CohortOfEarliestMonth ==
    IsCall("createCohortAnalysis") =>
        LET ids == {CustomerId(data[i]) : i \in DOMAIN data}
            members(m) == {c \in ids : EarliestMonth(c) = m}
        IN  /\ {res.val[k].cohortMonth : k \in DOMAIN res.val}
                  = {EarliestMonth(c) : c \in ids}
            /\ \A k \in DOMAIN res.val :
                  res.val[k].cohortSize = Cardinality(members(res.val[k].cohortMonth))
            /\ SumSeq([k \in DOMAIN res.val |-> res.val[k].cohortSize])
                  = Cardinality(ids)
            /\ \A j, k \in DOMAIN res.val :
                  j < k => res.val[j].cohortMonth < res.val[k].cohortMonth

\* C21 witness: a customer whose first record in the input is of a later
\* month than the second is in the cohort of the earlier month
C21_Witness ==
    /\ IsCall("createCohortAnalysis")
    /\ Len(data) = 3
    /\ CustomerId(data[1]) = CustomerId(data[2])
    /\ MonthOf(data[1].date) = 3
    /\ MonthOf(data[2].date) = 2
    /\ CustomerId(data[3]) # CustomerId(data[1])
    /\ MonthOf(data[3].date) = 1
    /\ Len(res.val) = 2
    /\ res.val[2].cohortMonth = 2

\* C22: for every cohort and every month after the cohort month up to the
\* last month of the data, retentionByMonth has an entry whose rate is the
\* percentage of the cohort's customers with a record in that month, 0
\* where none has one; every rate lies in 0..100.
C22_RetentionEveryMonth ==
    (IsCall("createCohortAnalysis") /\ data # <<>>) =>
        LET ids == {CustomerId(data[i]) : i \in DOMAIN data}
            months == {MonthOf(data[i].date) : i \in DOMAIN data}
            lastMonth == CHOOSE m \in months : \A x \in months : x <= m
        IN  \A k \in DOMAIN res.val :
              LET cohort == res.val[k]
                  members == {c \in ids : EarliestMonth(c) = cohort.cohortMonth}
                  active(m) == {c \in members : \E i \in DOMAIN data :
                                  CustomerId(data[i]) = c /\ MonthOf(data[i].date) = m}
              IN  /\ \A m \in (cohort.cohortMonth + 1)..lastMonth :
                        \E j \in DOMAIN cohort.retentionByMonth :
                           /\ cohort.retentionByMonth[j].month = m
                           /\ cohort.retentionByMonth[j].retentionRate
                                 = RoundTo(RMul(RDiv(Q(Cardinality(active(m))),
                                                     Q(cohort.cohortSize)), Q(100)), 100)
                  /\ \A j \in DOMAIN cohort.retentionByMonth :
                        /\ ~RLt(cohort.retentionByMonth[j].retentionRate, Q(0))
                        /\ ~RGt(cohort.retentionByMonth[j].retentionRate, Q(100))

\* the permutations of 1..n
Perms(n) == {p \in [1..n -> 1..n] : \A i, j \in 1..n : p[i] = p[j] => i = j}

\* the buckets of a record list as a mapping: the set of its entries
BucketSet(d) == {getSalesByCategory(d)[k] : k \in DOMAIN getSalesByCategory(d)}

\* the buckets of two record lists added key by key
MergedBuckets(d1, d2) ==
    LET b1 == getSalesByCategory(d1)
        b2 == getSalesByCategory(d2)
        field(b, c, f) == IF \E k \in DOMAIN b : b[k].category = c
                          THEN b[CHOOSE k \in DOMAIN b : b[k].category = c][f]
                          ELSE 0
        categories == {b1[k].category : k \in DOMAIN b1}
                         \cup {b2[k].category : k \in DOMAIN b2}
    IN  {[category |-> c,
          revenue |-> field(b1, c, "revenue") + field(b2, c, "revenue"),
          quantity |-> field(b1, c, "quantity") + field(b2, c, "quantity"),
          orders |-> field(b1, c, "orders") + field(b2, c, "orders")] :
            c \in categories}

\* C23: every permutation of the records gives the same category buckets,
\* and for every split of the records into two parts the two parts'
\* buckets added key by key are the buckets of the whole list.
C23_CommutativeMergeable ==
    IsCall("getSalesByCategory") =>
        LET whole == {res.val[k] : k \in DOMAIN res.val}
        IN  /\ \A p \in Perms(Len(data)) :
                  BucketSet([i \in DOMAIN data |-> data[p[i]]]) = whole
            /\ \A S \in SUBSET DOMAIN data :
                  MergedBuckets(
                      SelectIdx(data, [i \in DOMAIN data |-> i \in S]),
                      SelectIdx(data, [i \in DOMAIN data |-> i \notin S])) = whole

\* C23 witness: three records of two categories, the first and the last of
\* one category with different revenues, so that the permutations change
\* the key order and the splits cut through a bucket
C23_Witness ==
    /\ IsCall("getSalesByCategory")
    /\ Len(data) = 3
    /\ data[1].category = data[3].category
    /\ data[1].category # data[2].category
    /\ data[1].revenue # data[3].revenue
    /\ Len(res.val) = 2
    /\ res.val[1].orders = 2

\* C24: no division is evaluated with a zero denominator, so no quotient
\* is Infinity or NaN: the growth rate of generateQuarterlyForecast, the
\* growth rates of calculateMonthlyGrowthRate and, for every pair of
\* adjacent bands of calculatePriceElasticity, the percentage price change
\* and the percentage quantity change.
C24_NoZeroDenominator ==
    /\ (IsCall("generateQuarterlyForecast") /\ "expectedGrowthRate" \in DOMAIN res.val)
          => IsFinite(res.val.expectedGrowthRate)
    /\ IsCall("calculateMonthlyGrowthRate")
          => \A k \in DOMAIN res.val : IsFinite(res.val[k].growthRate)
    /\ IsCall("calculatePriceElasticity")
          => \A k \in DOMAIN res.val :
                "demandType" \in DOMAIN res.val[k] =>
                    LET pairs == PriceQuantityPairs(PointsOf(res.val[k].category))
                    IN  \A i \in 1..(Len(pairs) - 1) :
                          LET sample == PairElasticity(pairs[i], pairs[i + 1])
                          IN  /\ IsFinite(sample.percentPriceChange)
                              /\ IsFinite(sample.percentQuantityChange)

\* C25: no function raises, whatever records it is given: a record with a
\* missing date or product or with a quantity that is not positive never
\* makes a call end in an exception.
C25_NeverRaises ==
    "raised" \notin DOMAIN res

\* C26: for every customer clv is the customer's total revenue, whatever
\* the lifespan: purchases per month and clv use the same lifespanMonths
\* = max(3, days / 30); lifespanMonths >= 3 and orderCount >= 1.
C26_ClvIsTotalRevenue ==
    IsCall("calculateCustomerLifetimeValue") =>
        \A k \in DOMAIN res.val :
            /\ res.val[k].clv = RoundTo(Q(res.val[k].totalRevenue), 100)
            /\ ~RLt(res.val[k].lifespanMonths, Q(3))
            /\ res.val[k].orderCount >= 1

\* the per-customer results of calculateCustomerLifetimeValue as a set
ClvSet(results) ==
    {[customerId |-> results[k].customerId, clv |-> results[k].clv,
      lifespanMonths |-> results[k].lifespanMonths,
      totalRevenue |-> results[k].totalRevenue,
      orderCount |-> results[k].orderCount] : k \in DOMAIN results}

\* C27: every permutation of the records gives every customer the same
\* clv, lifespanMonths, totalRevenue and orderCount.
C27_ClvPermutationInvariant ==
    IsCall("calculateCustomerLifetimeValue") =>
        \A p \in Perms(Len(data)) :
            ClvSet(calculateCustomerLifetimeValue([i \in DOMAIN data |-> data[p[i]]]))
               = ClvSet(res.val)

\* C28: every product whose average quantity per month with sales is
\* greater than 0 and less than 2 has an INFO 'Low Sales Volume' alert,
\* also a product with sales in one month only.
C28_LowVolumeNotice ==
    IsCall("generatePerformanceAlerts") =>
        \A product \in {RecentRecords[i].product : i \in DOMAIN RecentRecords} :
            LET months == BucketsOf(product)
                total == SumSeq([k \in DOMAIN months |-> SoldIn(product, months[k])])
            IN  (total > 0 /\ total < 2 * Len(months))
                   => AlertCount(product, "INFO", "Low Sales Volume") = 1

\* a record dated within the 90 days before the time of the call: at most
\* 90 days back, a record of exactly 90 days back only at midnight
InWindow(item) ==
    \/ now.day - DayNumber(item.date) < 90
    \/ now.day - DayNumber(item.date) = 90 /\ now.midnight

\* C29: the alerts are those of the records dated within the 90 days
\* before the call: the older records change nothing, a decline alert is
\* about the product's two most recent months inside the window, and
\* records that are all older give the empty list.
C29_NinetyDayWindow ==
    IsCall("generatePerformanceAlerts") =>
        LET kept == SelectIdx(data, [i \in DOMAIN data |-> InWindow(data[i])])
            months(product) ==
                SortedSeq({MonthOf(kept[i].date) :
                    i \in {j \in DOMAIN kept : kept[j].product = product}})
            sold(product, month) ==
                SumSeq([i \in DOMAIN kept |->
                    IF kept[i].product = product /\ MonthOf(kept[i].date) = month
                    THEN kept[i].quantity ELSE 0])
        IN  /\ res.val = generatePerformanceAlerts(kept, now)
            /\ kept = <<>> => res.val = <<>>
            /\ \A k \in DOMAIN res.val :
                  LET ms == months(res.val[k].product)
                      n == Len(ms)
                  IN  /\ n >= 2
                      /\ res.val[k].issue = "Sales Decline" =>
                            100 * (sold(res.val[k].product, ms[n - 1])
                                     - sold(res.val[k].product, ms[n]))
                               > 15 * sold(res.val[k].product, ms[n - 1])
                      /\ res.val[k].issue = "Severe Sales Decline" =>
                            100 * (sold(res.val[k].product, ms[n - 1])
                                     - sold(res.val[k].product, ms[n]))
                               > 30 * sold(res.val[k].product, ms[n - 1])

\* C29 witness: a fall from 10 in January to 7 in February lies outside
\* the window and the months inside it, March and April, show no fall: no
\* alert is returned
C29_Witness ==
    /\ IsCall("generatePerformanceAlerts")
    /\ ~now.midnight
    /\ Len(data) = 4
    /\ \A i \in 1..4 : MonthOf(data[i].date) = i
    /\ data[1].quantity = 10
    /\ data[2].quantity = 7
    /\ data[3].quantity = 7
    /\ data[4].quantity = 7
    /\ res.val = <<>>

\* C30: getTopSellingProducts(limit) returns min(limit, number of distinct
\* products) entries, each a distinct product with the sum of its
\* quantities, in non-increasing quantity order, and no product left out
\* has a larger sum than a product returned.
C30_TopSellingProducts ==
    IsCall("getTopSellingProducts") =>
        LET products == {data[i].product : i \in DOMAIN data}
            total(product) ==
                SumSeq([i \in DOMAIN data |->
                    IF data[i].product = product THEN data[i].quantity ELSE 0])
            returned == {res.val[k].product : k \in DOMAIN res.val}
            count == Cardinality(products)
        IN  /\ Len(res.val) = IF res.limit < count THEN res.limit ELSE count
            /\ returned \subseteq products
            /\ \A j, k \in DOMAIN res.val :
                  res.val[j].product = res.val[k].product => j = k
            /\ \A k \in DOMAIN res.val :
                  res.val[k].quantity = total(res.val[k].product)
            /\ \A j, k \in DOMAIN res.val :
                  j < k => res.val[j].quantity >= res.val[k].quantity
            /\ \A product \in products \ returned :
                  \A k \in DOMAIN res.val : total(product) <= res.val[k].quantity

\* C30 witness: three products, met in ascending order of their sums, and
\* limit 2: the two with the larger sums are returned, largest first
C30_Witness ==
    /\ IsCall("getTopSellingProducts")
    /\ res.limit = 2
    /\ Len(data) = 3
    /\ data[1].quantity = 0
    /\ data[2].quantity = 1
    /\ data[3].quantity = 2
    /\ Len(res.val) = 2
    /\ res.val[1].product = data[3].product
    /\ res.val[2].product = data[2].product

====
